---- MODULE Spec2Model ----
(***************************************************************************)
(* GroupsRegistryComponent                                                 *)
(* (src/app/access-control/group-registry/groups-registry.component.ts).   *)
(*                                                                         *)
(* The component's fields are the variables.  Every call of search()       *)
(* creates one subscription ("cycle"): the gateway stream searchGroups()   *)
(* piped through getAllSucceededRemoteDataPayload() and a switchMap whose  *)
(* inner observable is the combineLatest join of the per-row lookups.      *)
(* Asynchronous completions (gateway pages, lookups, delete results, the   *)
(* browse endpoint) are separate actions.                                  *)
(***************************************************************************)
EXTENDS Integers, Sequences, FiniteSets, TLC

\* ---------------------------------------------------------------- bounds
MaxCycles == 2        \* search() calls in one behaviour (ngOnInit included)
MaxDeletes == 1       \* deleteGroup() calls in one behaviour
MaxPage == 2          \* page numbers offered to onPageChange
MaxPageLen == 2       \* groups in one gateway page
MaxSearches == 3      \* search() calls in one behaviour of SpecSearch
MaxAttempts == 2      \* deleteGroup() calls in one behaviour of SpecRetry

\* ------------------------------------------------------ program constants
pageSize == 5
InitialPage == 1

\* ---------------------------------------------------------------- inputs
Groups == {"A", "B"}

\* A query is a sequence of characters.
Queries == {<<>>, <<" ", "a">>}

\* The argument of search(): data.query is a string or null/undefined.
SearchData == [isNull : {FALSE}, query : Queries] \cup {[isNull |-> TRUE, query |-> <<>>]}

RECURSIVE TrimStart(_)
TrimStart(s) ==
    IF s # <<>> /\ Head(s) = " " THEN TrimStart(Tail(s)) ELSE s

RECURSIVE TrimEnd(_)
TrimEnd(s) ==
    IF s # <<>> /\ s[Len(s)] = " " THEN TrimEnd(SubSeq(s, 1, Len(s) - 1)) ELSE s

\* String.prototype.trim
Trim(s) == TrimEnd(TrimStart(s))

RECURSIVE SeqsNoRep(_)
SeqsNoRep(n) ==
    IF n = 0 THEN {<<>>}
    ELSE LET shorter == SeqsNoRep(n - 1)
         IN shorter \cup {Append(s, g) : s \in {t \in shorter : Len(t) = n - 1},
                                          g \in Groups}

Range(s) == {s[i] : i \in 1..Len(s)}

\* The pages the gateway can return: duplicate-free sequences of groups.
Pages == {s \in SeqsNoRep(MaxPageLen) : Cardinality(Range(s)) = Len(s)}

\* ------------------------------------------------------------- the state
VARIABLES
    currentSearchQuery,   \* this.currentSearchQuery
    currentPage,          \* this.config.currentPage
    searching,            \* this.searching$ (current value)
    groupsDto,            \* this.groupsDto$ (current value)
    pageInfoState,        \* this.pageInfoState$ (current value)
    deletedGroupsIds,     \* this.deletedGroupsIds
    searchSub,            \* this.searchSub: index into cycles, 0 = undefined
    subs,                 \* this.subs: sequence of indices into cycles
    cycles,               \* every subscription search() has created, in order
    deletes,              \* gateway deletes in flight (sequence of group ids)
    resets,               \* getBrowseEndpoint() subscriptions of reset() in flight
    invalidations,        \* calls of requestService.setStaleByHrefSubstring
    notifications,        \* calls of notificationsService.success / error
    initialised,          \* ngOnInit has run
    destroyed,            \* ngOnDestroy has run
    viewCycle,            \* history: the cycle whose callback wrote groupsDto last, 0 = none
    earlierResolved,      \* history: some cycle had published when it was superseded
    lastEvent             \* history: the step taken last

vars == <<currentSearchQuery, currentPage, searching, groupsDto, pageInfoState,
          deletedGroupsIds, searchSub, subs, cycles, deletes, resets,
          invalidations, notifications, initialised, destroyed, viewCycle,
          earlierResolved, lastEvent>>

\* ------------------------------------------------------------ data shapes
\* PageInfo of a gateway response; defined = FALSE is `undefined`.
NoPageInfo == [defined |-> FALSE, currentPage |-> 0, elementsPerPage |-> 0, totalElements |-> 0]

PageInfoOf(page, groups) ==
    [defined |-> TRUE, currentPage |-> page, elementsPerPage |-> pageSize,
     totalElements |-> (page - 1) * pageSize + Len(groups)]

\* buildPaginatedList(pageInfo, page)
buildPaginatedList(pageInfo, page) ==
    [built |-> TRUE, pageInfo |-> pageInfo, page |-> page]

\* `{} as any`, the initial value of groupsDto$
EmptyObject == [built |-> FALSE, pageInfo |-> NoPageInfo, page |-> <<>>]

\* The inner observable of switchMap.
\*   status "none"     nothing projected yet
\*          "joining"  combineLatest waits for lookups
\*          "emitted"  the join has emitted (every lookup has delivered)
\*          "hung"     combineLatest was handed `undefined`; it never emits
\*          "stalled"  a source of the join will never emit; it never emits
\* groups is groups.page as the gateway delivered it, slots the sources of
\* the join.
NoInner == [status |-> "none", pageInfo |-> NoPageInfo, groups |-> <<>>, slots |-> <<>>]

\* One row's combineLatest([isAuthorized, hasLinkedDSO, getSubgroups, getMembers]):
\* each field holds what the collaborator has delivered for that lookup.
\*   auth       "pending" | "true" | "false"
\*   linked     "pending" | "payload" | "nopayload" | "failed" | "thrown"
\*   subgroups  "pending" | "succeeded" | "failed"
\*   members    "pending" | "succeeded" | "failed"
PendingSlot(g) ==
    [group |-> g, auth |-> "pending", linked |-> "pending",
     subgroups |-> "pending", members |-> "pending"]

AuthResults == {"true", "false", "error"}
LinkedResults == {"payload", "nopayload", "failed", "thrown"}
ListResults == {"succeeded", "failed", "error"}

\* A subscription created by search().
\*   query, page  what was sent to searchGroups
\*   closed       the subscription is unsubscribed or has terminated with an error
\*   errored      an error reached the subscriber (it has no error handler)
\*   gw           "loading": the gateway owes a RemoteData; "idle": it does not
\*   rd           the RemoteData delivered last: "none" | "succeeded" | "failed"
\*   gotPage      some succeeded RemoteData has been delivered
\*   inner        the observable switchMap is subscribed to
NewCycle(query, page) ==
    [query |-> query, page |-> page, closed |-> FALSE, errored |-> FALSE,
     gw |-> "loading", rd |-> "none", gotPage |-> FALSE, inner |-> NoInner]

\* ---------------------------------------------------------------- rxjs
\* (mutation: the subscription is left open)
UnsubscribeLeak(cs, c) == cs

\* Subscription.unsubscribe(): closes the subscription and releases what it
\* held (the switchMap and its inner subscriptions); a request already sent
\* stays in flight.
Unsubscribe(cs, c) ==
    [cs EXCEPT ![c] = [NewCycle(<<>>, 0) EXCEPT !.closed = TRUE, !.gw = cs[c].gw]]

\* (mutation: every completed RemoteData passes)
PassesCompletedFilter(rd) == TRUE

\* getAllSucceededRemoteDataPayload(): only succeeded RemoteData pass.
PassesSucceededFilter(rd) == rd.ok

\* (mutation: the first completed RemoteData, failed or not)
FirstCompleted(result) == result \in {"succeeded", "failed"}

\* getFirstSucceededRemoteData() on a lookup: the value it lets through.
FirstSucceeded(result) == result = "succeeded"

\* hasLinkedDSO(group): [emits, value] for what findByHref delivered.
\*   getFirstSucceededRemoteData, map(hasValue(rd) && hasValue(rd.payload)),
\*   catchError(() => of(false))
hasLinkedDSO(result) ==
    CASE result = "payload"   -> [emits |-> TRUE, value |-> TRUE]
      [] result = "nopayload" -> [emits |-> TRUE, value |-> FALSE]
      [] result = "thrown"    -> [emits |-> TRUE, value |-> FALSE]
      [] OTHER                -> [emits |-> FALSE, value |-> FALSE]

\* rd.payload: only a succeeded RemoteData carries one.
Payload(result) == IF result = "succeeded" THEN "payload" ELSE "undefined"

\* getSubgroups(group) / getMembers(group): emit the first succeeded RemoteData.
getSubgroups(result) == [emits |-> FirstSucceeded(result), payload |-> Payload(result)]
getMembers(result) == [emits |-> FirstSucceeded(result), payload |-> Payload(result)]

\* isAuthorized(...): emits the boolean it was given.
isAuthorized(result) == [emits |-> result \in {"true", "false"}, value |-> result = "true"]

\* The row's combineLatest has a value from each of its four sources.
SlotReady(slot) ==
    /\ isAuthorized(slot.auth).emits
    /\ hasLinkedDSO(slot.linked).emits
    /\ getSubgroups(slot.subgroups).emits
    /\ getMembers(slot.members).emits

\* (mutation: || for &&)
AbleToDeleteOr(authorized, linked) == authorized \/ ~linked

\* groupDtoModel.ableToDelete = isAuthorized && !hasLinkedDSO
AbleToDelete(authorized, linked) == authorized /\ ~linked

\* The map() callback of a row: builds the GroupDtoModel.
GroupDto(slot) ==
    [group |-> slot.group,
     ableToDelete |-> AbleToDelete(isAuthorized(slot.auth).value, hasLinkedDSO(slot.linked).value),
     subgroups |-> getSubgroups(slot.subgroups).payload,
     epersons |-> getMembers(slot.members).payload]

\* (mutation: the join emits as soon as one row has emitted)
JoinReadyAny(slots) == \E i \in 1..Len(slots) : SlotReady(slots[i])

\* The outer combineLatest emits once every row has emitted ...
JoinReady(slots) == \A i \in 1..Len(slots) : SlotReady(slots[i])

\* (mutation: the rows in reverse order)
JoinValueReversed(slots) == [i \in 1..Len(slots) |-> GroupDto(slots[Len(slots) + 1 - i])]

\* ... the array of the rows' latest values, in the order of groups.page.
JoinValue(slots) == [i \in 1..Len(slots) |-> GroupDto(slots[i])]

\* !this.deletedGroupsIds.includes(group.id)
NotDeleted(deleted, g) == g \notin Range(deleted)

\* groups.page.map(...): an observable for a group that is not deleted,
\* `undefined` for one that is.
HasUndefinedSource(deleted, groups) ==
    \E i \in 1..Len(groups) : ~NotDeleted(deleted, groups[i])

\* ------------------------------------------------------------------ Init
Event(op, c, g) == [op |-> op, cycle |-> c, group |-> g]

Init ==
    /\ currentSearchQuery = <<>>
    /\ currentPage = InitialPage
    /\ searching = FALSE
    /\ groupsDto = EmptyObject
    /\ pageInfoState = NoPageInfo
    /\ deletedGroupsIds = <<>>
    /\ searchSub = 0
    /\ subs = <<>>
    /\ cycles = <<>>
    /\ deletes = <<>>
    /\ resets = 0
    /\ invalidations = 0
    /\ notifications = <<>>
    /\ initialised = FALSE
    /\ destroyed = FALSE
    /\ viewCycle = 0
    /\ earlierResolved = FALSE
    /\ lastEvent = Event("new", 0, "")

view == <<groupsDto, pageInfoState, searching, viewCycle>>
searchState == <<currentSearchQuery, currentPage>>
subscriptions == <<searchSub, subs>>
deletion == <<deletedGroupsIds, deletes, resets, invalidations, notifications>>
lifecycle == <<initialised, destroyed>>

\* --------------------------------------------------------------- search()
\* (mutation: every search counts as a new query)
QueryChangedAlways(data, current) == TRUE

\* query != null && this.currentSearchQuery !== query
QueryChanged(data, current) == ~data.isNull /\ current # data.query

\* The body of search(data), entered with config.currentPage = page.
DoSearch(data, page) ==
    LET changed == QueryChanged(data, currentSearchQuery)
        newQuery == IF changed THEN data.query ELSE currentSearchQuery
        newPage == IF changed THEN 1 ELSE page
        cs == IF searchSub # 0 THEN Unsubscribe(cycles, searchSub) ELSE cycles
        kept == IF searchSub # 0 THEN SelectSeq(subs, LAMBDA x : x # searchSub) ELSE subs
        c == Len(cycles) + 1
    IN  /\ searching' = TRUE
        /\ currentSearchQuery' = newQuery
        /\ currentPage' = newPage
        /\ cycles' = Append(cs, NewCycle(Trim(newQuery), newPage))
        /\ searchSub' = c
        /\ subs' = Append(kept, c)
        /\ earlierResolved' = (earlierResolved \/ viewCycle # 0)
        /\ UNCHANGED <<groupsDto, pageInfoState, viewCycle, deletion, destroyed>>

CanCall == initialised /\ ~destroyed

ngOnInit ==
    /\ ~initialised
    /\ ~destroyed
    /\ initialised' = TRUE
    /\ DoSearch([isNull |-> FALSE, query |-> currentSearchQuery], currentPage)
    /\ lastEvent' = Event("ngOnInit", Len(cycles) + 1, "")

search(data) ==
    /\ CanCall
    /\ DoSearch(data, currentPage)
    /\ lastEvent' = Event("search", Len(cycles) + 1, "")
    /\ UNCHANGED initialised

onPageChange(event) ==
    /\ CanCall
    /\ DoSearch([isNull |-> FALSE, query |-> currentSearchQuery], event)
    /\ lastEvent' = Event("onPageChange", Len(cycles) + 1, "")
    /\ UNCHANGED initialised

\* (mutation: the form is cleared but search() is handed no query)
NoQuery == [isNull |-> TRUE, query |-> <<>>]

\* { query: '' }
EmptyQuery == [isNull |-> FALSE, query |-> <<>>]

clearFormAndResetResult ==
    /\ CanCall
    /\ DoSearch(EmptyQuery, currentPage)
    /\ lastEvent' = Event("clearFormAndResetResult", Len(cycles) + 1, "")
    /\ UNCHANGED initialised

\* ------------------------------------------------- the subscribe callback
\* groupsDto$.next(value); pageInfoState$.next(value.pageInfo); searching$.next(false)
Publish(c, value) ==
    /\ groupsDto' = value
    /\ pageInfoState' = value.pageInfo
    /\ searching' = FALSE
    /\ viewCycle' = c
    /\ lastEvent' = Event("publish", c, "")

\* An error reaches the subscriber: the subscription terminates.
Fail(cs, c) ==
    [cs EXCEPT ![c].closed = TRUE, ![c].errored = TRUE, ![c].inner = NoInner]

\* ------------------------------------------------------ gateway delivery
GatewayResponses == [ok : {TRUE}, page : Pages] \cup {[ok |-> FALSE, page |-> <<>>]}

\* How combineLatest treats an `undefined` source: "swallow" (the TypeError
\* is only logged and the join never emits) or "raise" (the TypeError
\* reaches the subscriber).
UndefinedSourceOutcomes == {"swallow", "raise"}

\* The inner observable switchMap subscribes to for a non-empty page.
Project(pageInfo, groups, status) ==
    [status |-> status, pageInfo |-> pageInfo, groups |-> groups,
     slots |-> [i \in 1..Len(groups) |-> PendingSlot(groups[i])]]

\* (mutation: the empty page is handed to combineLatest like any other)
IsEmptyPageNever(groups) == FALSE

\* groups.page.length === 0
IsEmptyPage(groups) == Len(groups) = 0

\* searchGroups() of cycle c delivers a RemoteData.
GatewayDeliver(c, rd, rx) ==
    LET cyc == cycles[c]
        got == [cycles EXCEPT ![c].gw = "idle",
                              ![c].rd = IF rd.ok THEN "succeeded" ELSE "failed",
                              ![c].gotPage = @ \/ rd.ok]
        pageInfo == PageInfoOf(cyc.page, rd.page)
    IN  /\ c \in 1..Len(cycles)
        /\ cyc.gw = "loading"
        /\ UNCHANGED <<searchState, subscriptions, deletion, lifecycle, earlierResolved>>
        /\ IF cyc.closed
           THEN /\ cycles' = [cycles EXCEPT ![c].gw = "idle"]
                /\ lastEvent' = Event("gatewayDropped", c, "")
                /\ UNCHANGED view
           ELSE IF ~PassesSucceededFilter(rd)
           THEN /\ cycles' = got
                /\ lastEvent' = Event("gatewayFailed", c, "")
                /\ UNCHANGED view
           ELSE IF IsEmptyPage(rd.page)
           THEN /\ cycles' = [got EXCEPT ![c].inner = Project(pageInfo, <<>>, "emitted")]
                /\ Publish(c, buildPaginatedList(pageInfo, <<>>))
           ELSE IF HasUndefinedSource(deletedGroupsIds, rd.page)
           THEN /\ cycles' = IF rx = "raise"
                             THEN Fail(got, c)
                             ELSE [got EXCEPT ![c].inner = Project(pageInfo, rd.page, "hung")]
                /\ lastEvent' = Event("undefinedSource", c, "")
                /\ UNCHANGED view
           ELSE /\ cycles' = [got EXCEPT ![c].inner = Project(pageInfo, rd.page, "joining")]
                /\ lastEvent' = Event("assemble", c, "")
                /\ UNCHANGED view

\* ------------------------------------------------------- lookup delivery
\* The join of cycle c after lookups have delivered: its sources are now
\* `slots`; `error` says that a source has thrown into the join.
JoinStep(c, slots, error) ==
    IF error
    THEN /\ cycles' = Fail(cycles, c)
         /\ lastEvent' = Event("lookupError", c, "")
         /\ UNCHANGED view
    ELSE IF JoinReady(slots)
    THEN /\ cycles' = [cycles EXCEPT ![c].inner.slots = slots, ![c].inner.status = "emitted"]
         /\ Publish(c, buildPaginatedList(cycles[c].inner.pageInfo, JoinValue(slots)))
    ELSE /\ cycles' = [cycles EXCEPT ![c].inner.slots = slots]
         /\ lastEvent' = Event("lookup", c, "")
         /\ UNCHANGED view

Joining(c, i) ==
    /\ c \in 1..Len(cycles)
    /\ ~cycles[c].closed
    /\ cycles[c].inner.status = "joining"
    /\ i \in 1..Len(cycles[c].inner.slots)

\* One lookup of row i of cycle c delivers.  An error of isAuthorized,
\* getSubgroups or getMembers is thrown into the join; every other result
\* is stored.
LookupDeliver(c, i, field, result) ==
    /\ Joining(c, i)
    /\ cycles[c].inner.slots[i][field] = "pending"
    /\ JoinStep(c, [cycles[c].inner.slots EXCEPT ![i][field] = result], result = "error")
    /\ UNCHANGED <<searchState, subscriptions, deletion, lifecycle, earlierResolved>>

isAuthorizedDeliver(c, i, result) == LookupDeliver(c, i, "auth", result)
findByHrefDeliver(c, i, result) == LookupDeliver(c, i, "linked", result)
subgroupsDeliver(c, i, result) == LookupDeliver(c, i, "subgroups", result)
membersDeliver(c, i, result) == LookupDeliver(c, i, "members", result)

\* The four lookups of row i of cycle c deliver, seen as one step (the step
\* of the last of them).  A row one of whose sources never emits keeps the
\* join from ever emitting: the inner observable is then "stalled" and the
\* deliveries of the other rows, which nothing can observe, are left out.
RowDeliver(c, i, auth, linked, subgroups, members) ==
    LET slot == [group |-> cycles[c].inner.slots[i].group, auth |-> auth,
                 linked |-> linked, subgroups |-> subgroups, members |-> members]
        error == "error" \in {auth, subgroups, members}
    IN  /\ Joining(c, i)
        /\ cycles[c].inner.slots[i] = PendingSlot(cycles[c].inner.slots[i].group)
        /\ IF error \/ SlotReady(slot)
           THEN JoinStep(c, [cycles[c].inner.slots EXCEPT ![i] = slot], error)
           ELSE /\ cycles' = [cycles EXCEPT ![c].inner.status = "stalled", ![c].inner.slots = <<>>]
                /\ lastEvent' = Event("lookup", c, "")
                /\ UNCHANGED view
        /\ UNCHANGED <<searchState, subscriptions, deletion, lifecycle, earlierResolved>>

\* ----------------------------------------------------------- deleteGroup
Undefined == "undefined"
\* (mutation: every id counts as present)
hasValueAlways(x) == TRUE

hasValue(x) == x # Undefined

\* The group.group.id values deleteGroup can be handed.
DeleteArgs == Groups \cup {Undefined}

deleteGroup(id) ==
    /\ CanCall
    /\ deletes' = IF hasValue(id) THEN Append(deletes, id) ELSE deletes
    /\ lastEvent' = Event("deleteGroup", 0, id)
    /\ UNCHANGED <<searchState, view, subscriptions, cycles, lifecycle, earlierResolved,
                   deletedGroupsIds, resets, invalidations, notifications>>

RemoveAt(s, k) == [i \in 1..(Len(s) - 1) |-> IF i < k THEN s[i] ELSE s[i + 1]]

\* (mutation: this.reset() is not called)
resetSkipped(pending) == pending

\* reset(): one more subscription to getBrowseEndpoint().pipe(take(1)).
reset(pending) == pending + 1

\* (mutation: the id is recorded as deleted whatever the gateway answered)
DeleteDeliverTombstoning(k, hasSucceeded) ==
    /\ k \in 1..Len(deletes)
    /\ deletes' = RemoveAt(deletes, k)
    /\ deletedGroupsIds' = Append(deletedGroupsIds, deletes[k])
    /\ IF hasSucceeded
       THEN /\ notifications' = Append(notifications, <<"success", deletes[k]>>)
            /\ resets' = reset(resets)
            /\ lastEvent' = Event("deleted", 0, deletes[k])
       ELSE /\ notifications' = Append(notifications, <<"error", deletes[k]>>)
            /\ lastEvent' = Event("deleteFailed", 0, deletes[k])
            /\ UNCHANGED resets
    /\ UNCHANGED <<searchState, view, subscriptions, cycles, lifecycle, earlierResolved, invalidations>>

\* groupService.delete(id) delivers its completed RemoteData to the callback.
DeleteDeliver(k, hasSucceeded) ==
    /\ k \in 1..Len(deletes)
    /\ deletes' = RemoveAt(deletes, k)
    /\ IF hasSucceeded
       THEN /\ deletedGroupsIds' = Append(deletedGroupsIds, deletes[k])
            /\ notifications' = Append(notifications, <<"success", deletes[k]>>)
            /\ resets' = reset(resets)
            /\ lastEvent' = Event("deleted", 0, deletes[k])
       ELSE /\ notifications' = Append(notifications, <<"error", deletes[k]>>)
            /\ lastEvent' = Event("deleteFailed", 0, deletes[k])
            /\ UNCHANGED <<deletedGroupsIds, resets>>
    /\ UNCHANGED <<searchState, view, subscriptions, cycles, lifecycle, earlierResolved, invalidations>>

\* requestService.setStaleByHrefSubstring(href): the cached group pages are
\* stale; a gateway stream that still has a subscriber fetches its page again.
setStaleByHrefSubstring(cs) ==
    [c \in 1..Len(cs) |->
        IF ~cs[c].closed /\ cs[c].gw = "idle" THEN [cs[c] EXCEPT !.gw = "loading"] ELSE cs[c]]

\* The callback of reset(): getBrowseEndpoint().pipe(take(1)) delivers the href.
BrowseEndpointDeliver ==
    /\ resets > 0
    /\ resets' = resets - 1
    /\ invalidations' = invalidations + 1
    /\ cycles' = setStaleByHrefSubstring(cycles)
    /\ lastEvent' = Event("setStale", 0, "")
    /\ UNCHANGED <<searchState, view, subscriptions, lifecycle, earlierResolved,
                   deletedGroupsIds, deletes, notifications>>

\* ----------------------------------------------------------- ngOnDestroy
RECURSIVE cleanupSubscribes(_, _)
cleanupSubscribes(cs, ss) ==
    IF ss = <<>> THEN cs ELSE cleanupSubscribes(Unsubscribe(cs, Head(ss)), Tail(ss))

ngOnDestroy ==
    /\ initialised
    /\ ~destroyed
    /\ destroyed' = TRUE
    /\ cycles' = cleanupSubscribes(cycles, subs)
    /\ lastEvent' = Event("ngOnDestroy", 0, "")
    /\ UNCHANGED <<searchState, view, subscriptions, deletion, initialised, earlierResolved>>

\* ------------------------------------------------------------------ Next
Rows == 1..MaxPageLen
CycleIds == 1..MaxCycles

\* The calls of one run are bounded: at most max search cycles are started
\* and at most max deletions are asked for.
CyclesWithin(max) == Len(cycles) < max
DeletesWithin(max) == Len(deletes) + Len(notifications) < max
CanSearch == CyclesWithin(MaxCycles)
CanDelete == DeletesWithin(MaxDeletes)

\* What the four lookups of one row deliver: every combination in which at
\* most one of them fails (SpecJoin has the others).
Failures(r) ==
    (IF r[1] = "error" THEN 1 ELSE 0) + (IF r[2] \in {"failed", "thrown"} THEN 1 ELSE 0)
    + (IF r[3] # "succeeded" THEN 1 ELSE 0) + (IF r[4] # "succeeded" THEN 1 ELSE 0)

RowResults ==
    {r \in AuthResults \X LinkedResults \X ListResults \X ListResults : Failures(r) <= 1}

\* The component with its collaborators; a row's lookups deliver together.
Next ==
    \/ ngOnInit
    \/ \E data \in SearchData : CanSearch /\ search(data)
    \/ \E event \in 1..MaxPage : CanSearch /\ onPageChange(event)
    \/ CanSearch /\ clearFormAndResetResult
    \/ \E c \in CycleIds, rd \in GatewayResponses, rx \in UndefinedSourceOutcomes : GatewayDeliver(c, rd, rx)
    \/ \E c \in CycleIds, i \in Rows, r \in RowResults : RowDeliver(c, i, r[1], r[2], r[3], r[4])
    \/ \E id \in DeleteArgs : CanDelete /\ deleteGroup(id)
    \/ \E k \in 1..MaxDeletes, ok \in BOOLEAN : DeleteDeliver(k, ok)
    \/ BrowseEndpointDeliver
    \/ ngOnDestroy

Spec == Init /\ [][Next]_vars

\* One search cycle; every lookup of every row delivers on its own.
NextJoin ==
    \/ ngOnInit
    \/ \E rd \in GatewayResponses, rx \in UndefinedSourceOutcomes : GatewayDeliver(1, rd, rx)
    \/ \E i \in Rows, r \in AuthResults : isAuthorizedDeliver(1, i, r)
    \/ \E i \in Rows, r \in LinkedResults : findByHrefDeliver(1, i, r)
    \/ \E i \in Rows, r \in ListResults : subgroupsDeliver(1, i, r)
    \/ \E i \in Rows, r \in ListResults : membersDeliver(1, i, r)

SpecJoin == Init /\ [][NextJoin]_vars

\* The component with the one search cycle of ngOnInit, and deletions.  The
\* browse endpoint of the group collection is resolved in the end.
NextDelete ==
    \/ ngOnInit
    \/ \E rd \in GatewayResponses, rx \in UndefinedSourceOutcomes : GatewayDeliver(1, rd, rx)
    \/ \E i \in Rows, r \in RowResults : RowDeliver(1, i, r[1], r[2], r[3], r[4])
    \/ \E id \in DeleteArgs : CanDelete /\ deleteGroup(id)
    \/ \E k \in 1..MaxDeletes, ok \in BOOLEAN : DeleteDeliver(k, ok)
    \/ BrowseEndpointDeliver
    \/ ngOnDestroy

SpecDelete == Init /\ [][NextDelete]_vars /\ WF_vars(BrowseEndpointDeliver)

\* The search form and the paginator alone: more calls in a row, no deletion.
NextSearch ==
    \/ ngOnInit
    \/ \E data \in SearchData : CyclesWithin(MaxSearches) /\ search(data)
    \/ \E event \in 1..MaxPage : CyclesWithin(MaxSearches) /\ onPageChange(event)
    \/ CyclesWithin(MaxSearches) /\ clearFormAndResetResult
    \/ \E c \in 1..MaxSearches, rd \in GatewayResponses, rx \in UndefinedSourceOutcomes :
          GatewayDeliver(c, rd, rx)
    \/ \E c \in 1..MaxSearches, i \in Rows, r \in RowResults :
          RowDeliver(c, i, r[1], r[2], r[3], r[4])

SpecSearch == Init /\ [][NextSearch]_vars

\* The one search cycle of ngOnInit, and deletions that can be asked again.
NextRetry ==
    \/ ngOnInit
    \/ \E rd \in GatewayResponses, rx \in UndefinedSourceOutcomes : GatewayDeliver(1, rd, rx)
    \/ \E i \in Rows, r \in RowResults : RowDeliver(1, i, r[1], r[2], r[3], r[4])
    \/ \E id \in DeleteArgs : DeletesWithin(MaxAttempts) /\ deleteGroup(id)
    \/ \E k \in 1..MaxAttempts, ok \in BOOLEAN : DeleteDeliver(k, ok)
    \/ BrowseEndpointDeliver

SpecRetry == Init /\ [][NextRetry]_vars

\* ================================================================ claims
Newest == cycles[Len(cycles)]

\* Nothing is in flight any more.
Settled ==
    /\ \A c \in 1..Len(cycles) : cycles[c].gw = "idle" /\ cycles[c].inner.status # "joining"
    /\ deletes = <<>>
    /\ resets = 0

\* C1: every write of the Published View made by a cycle's callback is made
\* by the cycle started last; a superseded cycle never publishes.
C1_OnlyNewestPublishes ==
    lastEvent.op = "publish" => lastEvent.cycle = Len(cycles) /\ viewCycle = Len(cycles)

\* A cycle publishes while the request of a superseded cycle is still in flight.
C1_Witness ==
    /\ lastEvent.op = "publish"
    /\ Len(cycles) >= 2
    /\ cycles[1].closed
    /\ cycles[1].gw = "loading"

\* C2: when searches are issued before the earlier ones have resolved, the
\* Published View is never the result of an earlier search, and once
\* everything has settled with the last search resolved it is the result of
\* the last query / page pair.
C2_LastSearchWins ==
    /\ (~earlierResolved /\ viewCycle # 0) => viewCycle = Len(cycles)
    /\ (viewCycle # 0 /\ viewCycle = Len(cycles) /\ ~Newest.closed) =>
            /\ Newest.query = Trim(currentSearchQuery)
            /\ Newest.page = currentPage
            /\ groupsDto.pageInfo.currentPage = currentPage
    /\ (Settled /\ cycles # <<>> /\ Newest.inner.status = "emitted") =>
            /\ groupsDto = buildPaginatedList(Newest.inner.pageInfo, JoinValue(Newest.inner.slots))
            /\ pageInfoState = Newest.inner.pageInfo

\* Two searches were issued before the first resolved; all has settled and
\* the view shows the rows of the second.
C2_Witness ==
    /\ Settled
    /\ Len(cycles) >= 2
    /\ ~earlierResolved
    /\ viewCycle = Len(cycles)
    /\ currentPage = 2
    /\ Len(groupsDto.page) > 0

\* C3 (as claimed): an assembly whose gateway page holds a deleted group goes
\* on with the other groups of the page, in page order, and so publishes them.
C3_DeletedRowOmitted ==
    lastEvent.op = "undefinedSource" =>
        LET cyc == cycles[lastEvent.cycle]
        IN  /\ ~cyc.closed
            /\ cyc.inner.status \in {"joining", "emitted"}
            /\ \A i \in 1..Len(cyc.inner.slots) : NotDeleted(deletedGroupsIds, cyc.inner.slots[i].group)

\* C4 (as claimed): when the gateway fetch of the current cycle fails, the
\* busy flag is set back to false.
C4_BusyClearedOnFailure ==
    (lastEvent.op = "gatewayFailed" /\ lastEvent.cycle = Len(cycles)) => ~searching

\* C5: as long as the cycle started last has been delivered no succeeded
\* page (its fetch is pending or has failed), no step changes groupsDto or
\* pageInfoState: they keep the values they had before that cycle started.
C5_FailedFetchKeepsView ==
    [][(cycles' # <<>> /\ ~cycles'[Len(cycles')].gotPage) =>
            (groupsDto' = groupsDto /\ pageInfoState' = pageInfoState)]_vars

\* The fetch of a second cycle has failed while the view shows rows of the first.
C5_Witness ==
    /\ Len(cycles) >= 2
    /\ Newest.rd = "failed"
    /\ ~Newest.gotPage
    /\ viewCycle = 1
    /\ Len(groupsDto.page) > 0

Slots == IF cycles = <<>> THEN <<>> ELSE cycles[1].inner.slots

ListFailed(slot) == slot.subgroups = "failed" \/ slot.members = "failed"

Delivered(slot) ==
    /\ slot.auth \in {"true", "false"}
    /\ slot.linked # "pending"
    /\ slot.subgroups # "pending"
    /\ slot.members # "pending"

\* C7: a cycle one of whose rows has a failed subgroup, member or
\* authorization lookup publishes nothing, and no published row lacks its
\* subgroups or members.
C7_NoPartialPublish ==
    /\ (cycles # <<>> /\ (cycles[1].errored \/ \E i \in 1..Len(Slots) : ListFailed(Slots[i]))) =>
            (~groupsDto.built /\ viewCycle = 0 /\ pageInfoState = NoPageInfo)
    /\ \A i \in 1..Len(groupsDto.page) :
            groupsDto.page[i].subgroups = "payload" /\ groupsDto.page[i].epersons = "payload"

\* The member lookup of the first row has failed, every lookup of the second
\* row has succeeded.
C7_Witness ==
    /\ Len(Slots) = 2
    /\ Slots[1].members = "failed"
    /\ Delivered(Slots[2])
    /\ Slots[2].linked \in {"payload", "nopayload"}
    /\ Slots[2].subgroups = "succeeded"
    /\ Slots[2].members = "succeeded"

\* C8 (as claimed): a row whose linked-object lookup has failed, and whose
\* other lookups have succeeded, resolves with ableToDelete = isAuthorized.
C8_LinkedFailureAbsorbed ==
    \A i \in 1..Len(Slots) :
        (/\ Slots[i].linked \in {"failed", "thrown"}
         /\ Slots[i].auth \in {"true", "false"}
         /\ Slots[i].subgroups = "succeeded"
         /\ Slots[i].members = "succeeded") =>
            /\ SlotReady(Slots[i])
            /\ GroupDto(Slots[i]).ableToDelete = (Slots[i].auth = "true")

\* C9: the published rows are one per group of the gateway page, in the
\* order of the page.
C9_RowsInPageOrder ==
    groupsDto.built =>
        /\ Len(groupsDto.page) = Len(cycles[1].inner.groups)
        /\ \A i \in 1..Len(groupsDto.page) : groupsDto.page[i].group = cycles[1].inner.groups[i]

\* The page <<B, A>> has been published.
C9_Witness ==
    /\ groupsDto.built
    /\ cycles[1].inner.groups = <<"B", "A">>
    /\ Len(groupsDto.page) = 2
    /\ groupsDto.page[1].group = "B"

\* C10: every published row has ableToDelete = isAuthorized /\ ~hasLinkedObject
\* for the results delivered for that row's own group.
C10_AbleToDeleteOwnLookups ==
    groupsDto.built =>
        \A i \in 1..Len(groupsDto.page) :
            /\ groupsDto.page[i].group = Slots[i].group
            /\ groupsDto.page[i].ableToDelete = (Slots[i].auth = "true" /\ Slots[i].linked # "payload")

\* A is authorized and has no linked object, B is not authorized:
\* the rows are [{A, true}, {B, false}] and busy is false.
C10_Witness ==
    /\ groupsDto.built
    /\ Len(groupsDto.page) = 2
    /\ Slots[1].group = "A" /\ Slots[1].auth = "true" /\ Slots[1].linked = "nopayload"
    /\ Slots[2].group = "B" /\ Slots[2].auth = "false" /\ Slots[2].linked = "nopayload"
    /\ groupsDto.page[1].group = "A" /\ groupsDto.page[1].ableToDelete
    /\ groupsDto.page[2].group = "B" /\ ~groupsDto.page[2].ableToDelete
    /\ ~searching

\* C11: a gateway page without groups is published as it is (no rows, the
\* gateway's pageInfo) and the busy flag is cleared, and the cycle subscribes
\* to no per-row lookup.
C11_EmptyPageShortCircuit ==
    \A c \in 1..Len(cycles) :
        LET cyc == cycles[c]
        IN  (~cyc.closed /\ cyc.inner.status \in {"joining", "emitted"} /\ cyc.inner.groups = <<>>)
            => /\ cyc.inner.status = "emitted"
               /\ cyc.inner.slots = <<>>
               /\ cyc.inner.pageInfo = PageInfoOf(cyc.page, <<>>)
               /\ viewCycle = c
               /\ groupsDto = buildPaginatedList(cyc.inner.pageInfo, <<>>)
               /\ pageInfoState = cyc.inner.pageInfo
               /\ ~searching

C11_Witness ==
    /\ Len(cycles) = 2
    /\ Newest.inner.status = "emitted"
    /\ Newest.inner.groups = <<>>
    /\ viewCycle = 2
    /\ groupsDto.page = <<>>

\* C12: a failed deletion is notified as an error and changes nothing else
\* (no tombstone, no reset, no invalidation, the view and the search cycles
\* as they were); deleteGroup of a group whose deletion failed asks the
\* gateway again.
C12_FailedDeleteLeavesState ==
    /\ [][(lastEvent'.op = "deleteFailed")
          => (/\ notifications' = Append(notifications, <<"error", lastEvent'.group>>)
              /\ UNCHANGED <<deletedGroupsIds, resets, invalidations, view, cycles,
                             searchState, subscriptions>>)]_vars
    /\ [][(/\ lastEvent'.op = "deleteGroup"
           /\ \E n \in Range(notifications) : n = <<"error", lastEvent'.group>>)
          => (deletes' = Append(deletes, lastEvent'.group))]_vars

C12_Witness ==
    /\ lastEvent = Event("deleteGroup", 0, "A")
    /\ notifications = << <<"error", "A">> >>
    /\ deletes = <<"A">>
    /\ deletedGroupsIds = <<>>
    /\ groupsDto.built
    /\ \E i \in 1..Len(groupsDto.page) : groupsDto.page[i].group = "A"

\* C13: once ngOnDestroy has run, no callback of the component fires: the
\* only thing that still happens is a gateway page arriving at a cancelled
\* subscription.
C13_NoCallbackAfterDestroy ==
    destroyed => lastEvent.op \in {"ngOnDestroy", "gatewayDropped"}

\* A search cycle has been started for the resulting query and page.
FetchStarted ==
    /\ Len(cycles') = Len(cycles) + 1
    /\ searchSub' = Len(cycles')
    /\ searching'
    /\ cycles'[Len(cycles')] = NewCycle(Trim(currentSearchQuery'), currentPage')

\* C14: search(data) with a query other than the current one records it and
\* goes back to page 1, and with the current query (or none) keeps both;
\* onPageChange(n) sets the page to n and keeps the query; both start a
\* fetch for the resulting query and page.
C14_SearchAndPageChange ==
    /\ [][\A data \in SearchData :
            search(data)
            => LET differs == ~data.isNull /\ data.query # currentSearchQuery
               IN  /\ currentSearchQuery' = (IF differs THEN data.query ELSE currentSearchQuery)
                   /\ currentPage' = (IF differs THEN 1 ELSE currentPage)
                   /\ (currentPage' = 1) = (differs \/ currentPage = 1)
                   /\ FetchStarted]_vars
    /\ [][\A n \in 1..MaxPage :
            onPageChange(n)
            => (/\ currentPage' = n
                /\ currentSearchQuery' = currentSearchQuery
                /\ FetchStarted)]_vars

C14_Witness ==
    /\ Len(cycles) = 3
    /\ lastEvent.op = "onPageChange"
    /\ currentSearchQuery = <<" ", "a">>
    /\ currentPage = 2
    /\ Newest = NewCycle(<<"a">>, 2)

\* C15: when the gateway fetch of the newest cycle has succeeded and none of
\* its per-row lookups is outstanding or has failed, the cycle has published
\* and the busy flag is false, whatever the page holds.
C15_BusyClearedOnSuccess ==
    (/\ cycles # <<>>
     /\ ~Newest.closed
     /\ Newest.rd = "succeeded"
     /\ Newest.gw = "idle"
     /\ Newest.inner.status \notin {"joining", "stalled"})
    => ~searching

\* C16: clearFormAndResetResult does what search with the empty query does
\* (the query becomes empty, the page goes back to 1 only if the query was
\* not empty, a fetch is started for them); called right after itself it
\* leaves query and page as they are and asks the gateway for the same page.
C16_ClearIdempotent ==
    [][(lastEvent'.op = "clearFormAndResetResult")
       => (/\ currentSearchQuery' = <<>>
           /\ currentPage' = (IF currentSearchQuery # <<>> THEN 1 ELSE currentPage)
           /\ FetchStarted
           /\ UNCHANGED <<groupsDto, pageInfoState, deletedGroupsIds>>
           /\ (lastEvent.op = "clearFormAndResetResult")
              => (/\ UNCHANGED searchState
                  /\ cycles'[Len(cycles')].query = Newest.query
                  /\ cycles'[Len(cycles')].page = Newest.page))]_vars

C16_Witness ==
    /\ lastEvent = Event("clearFormAndResetResult", 3, "")
    /\ currentSearchQuery = <<>>
    /\ currentPage = 1
    /\ viewCycle = 2
    /\ Newest = NewCycle(<<>>, 1)

\* C17: deleteGroup of a group without an id does nothing: no gateway
\* delete, no notification, no tombstone, the view and the busy flag as
\* they were.
C17_AbsentIdNoOp ==
    [][(lastEvent'.op = "deleteGroup" /\ lastEvent'.group = Undefined)
       => UNCHANGED <<deletes, notifications, deletedGroupsIds, resets, invalidations,
                      view, cycles, searchState, subscriptions>>]_vars

C17_Witness ==
    /\ lastEvent = Event("deleteGroup", 0, Undefined)
    /\ deletes = <<>>
    /\ notifications = <<>>
    /\ groupsDto.built
    /\ Len(groupsDto.page) > 0

\* C18: no row of a published view belongs to a group whose deletion has
\* succeeded before that view was published.
C18_NoDeletedRowPublished ==
    (lastEvent.op = "publish")
    => \A i \in 1..Len(groupsDto.page) : groupsDto.page[i].group \notin Range(deletedGroupsIds)

\* C19: rows are published only when each of the four lookups of every row
\* of the page has delivered its value, in whatever order they delivered;
\* while one of them is outstanding nothing is published and busy stays true.
C19_PublishAfterFullJoin ==
    /\ (groupsDto.built /\ groupsDto.page # <<>>)
       => /\ Len(Slots) = Len(groupsDto.page)
          /\ \A i \in 1..Len(Slots) :
                /\ Slots[i].auth \in {"true", "false"}
                /\ Slots[i].linked \in {"payload", "nopayload", "thrown"}
                /\ Slots[i].subgroups = "succeeded"
                /\ Slots[i].members = "succeeded"
    /\ (\E i \in 1..Len(Slots) :
            "pending" \in {Slots[i].auth, Slots[i].linked, Slots[i].subgroups, Slots[i].members})
       => (~groupsDto.built /\ searching)

\* Two rows have been published, the linked-object lookup of the second one
\* having thrown.
C19_Witness ==
    /\ lastEvent = Event("publish", 1, "")
    /\ Len(groupsDto.page) = 2
    /\ Slots[1].linked = "payload"
    /\ Slots[2].linked = "thrown"
    /\ ~searching

\* The ids of the success notifications, in their order.
SucceededIds ==
    LET done == SelectSeq(notifications, LAMBDA n : n[1] = "success")
    IN  [i \in 1..Len(done) |-> done[i][2]]

====
